---- MODULE Spec2Model ----
(***************************************************************************)
(* Def-use control-flow graph construction of Krakatau/java/cfg.py.        *)
(*                                                                         *)
(* DUGraph.visitScope is a recursive descent over a statement tree.  It is *)
(* modelled with an explicit call stack of visitScope activations; the     *)
(* statement tree is the input and is read lazily: each attribute of the   *)
(* tree is chosen at the moment the code first reads it and recorded in    *)
(* scopes / stmts, so that the lexical structure of the input is available *)
(* to the properties independently of the traversal's own bookkeeping.     *)
(* DUGraph.replace and DUGraph.simplify act on the finished graph.         *)
(***************************************************************************)
EXTENDS Integers, Sequences, FiniteSets, TLC

(* ------------------------------ bounds -------------------------------- *)
\* compound statements (if/switch/while/try/block) in an input tree of Spec
MaxCompound == 2
\* simple statements (expression/throw/return) in an input tree of Spec
MaxSimple == 1
\* compound statements in an input tree of MutSpec
MaxMutCompound == 1
\* simple statements in an input tree of MutSpec
MaxMutSimple == 2
\* calls of replace in a run of MutSpec
MaxReplace == 1
\* scopes of a switch statement
MaxCases == 1
\* catch clauses of a try statement
MaxCatch == 2
\* distinct ast.Local objects
NVars == 2

None == 0
Locals == 1..NVars

(* --------------------------- small utilities -------------------------- *)
Range(s) == {s[i] : i \in 1..Len(s)}

Last(s) == s[Len(s)]

Front(s) == SubSeq(s, 1, Len(s) - 1)

Count(s, x) == Cardinality({i \in 1..Len(s) : s[i] = x})

\* x repeated n times
Rep(x, n) == [i \in 1..n |-> x]

\* first index of s holding x, 0 when there is none
IndexOf(s, x) ==
  IF x \in Range(s) THEN CHOOSE i \in 1..Len(s) : s[i] = x /\ \A j \in 1..(i-1) : s[j] # x
  ELSE 0

(* ------------------------- events of a block -------------------------- *)
\* ('use', var)
Use(v) == [t |-> "use", v |-> v, v2 |-> None]

\* ('def', (var, var2_opt))
Def(v, v2) == [t |-> "def", v |-> v, v2 |-> v2]

\* ('canthrow', None)
CanThrowLine == [t |-> "canthrow", v |-> None, v2 |-> None]

(* ---------------------------- expressions ----------------------------- *)
\* the attributes of an ast expression node that cfg.py reads
Expr(type, id, opstr, dtype, params) ==
  [type |-> type, id |-> id, opstr |-> opstr, dtype |-> dtype, params |-> params]

NoExpr == Expr("None", None, "", "", <<>>)

Local(v) == Expr("Local", v, "", "", <<>>)

Literal == Expr("Literal", None, "", "IntTT", <<>>)

Assignment(lhs, rhs) == Expr("Assignment", None, "=", "IntTT", <<lhs, rhs>>)

BinaryInfix(opstr, dtype, a, b) == Expr("BinaryInfix", None, opstr, dtype, <<a, b>>)

MethodInvocation(params) == Expr("MethodInvocation", None, "", "IntTT", params)

FieldAccess(obj) == Expr("FieldAccess", None, "", "IntTT", <<obj>>)

ThrowingTypes ==
  {"ArrayAccess", "ArrayCreation", "Cast", "ClassInstanceCreation", "FieldAccess",
   "MethodInvocation"}

\* varOrNone with the isinstance test failing for every expression
varOrNoneNever(expr) == None

varOrNone(expr) == IF expr.type = "Local" THEN expr.id ELSE None

\* canThrow without the test of the expression's dtype in line 28
canThrowAnyDivision(expr) ==
  IF expr.type \in ThrowingTypes THEN TRUE
  ELSE expr.type = "BinaryInfix" /\ expr.opstr \in {"/", "%"}

canThrow(expr) ==
  IF expr.type \in ThrowingTypes THEN TRUE
  ELSE IF expr.type = "BinaryInfix" /\ expr.opstr \in {"/", "%"}
       THEN expr.dtype \notin {"FloatTT", "DoubleTT"}
       ELSE FALSE

RECURSIVE visitExpr(_, _)
RECURSIVE visitParams(_, _, _)
\* for param in expr.params: visitExpr(param, lines), from the i-th on
visitParams(params, i, lines) ==
  IF i > Len(params) THEN lines
  ELSE visitParams(params, i + 1, visitExpr(params[i], lines))

visitExpr(expr, lines) ==
  IF expr = NoExpr THEN lines
  ELSE
    LET l1 == IF expr.type = "Local" THEN Append(lines, Use(expr.id)) ELSE lines
        l2 == IF expr.type = "Assignment"
              THEN LET lhs == varOrNone(expr.params[1])
                       rhs == varOrNone(expr.params[2])
                       a == IF lhs = None THEN visitExpr(expr.params[1], l1) ELSE l1
                       b == visitExpr(expr.params[2], a)
                   IN IF lhs # None THEN Append(b, Def(lhs, rhs)) ELSE b
              ELSE visitParams(expr.params, 1, l1)
    IN IF canThrow(expr) THEN Append(l2, CanThrowLine) ELSE l2

\* expressions visitExpr is called on: operands, and one operator or one
\* assignment over them
InfixOps == {"/", "%", "+"}

DTypes == {"IntTT", "LongTT", "FloatTT", "DoubleTT"}

Operands ==
  {Local(v) : v \in Locals}
    \cup {Literal, MethodInvocation(<<>>), FieldAccess(Local(1)),
          BinaryInfix("/", "IntTT", Local(1), Local(2)),
          BinaryInfix("%", "DoubleTT", Local(2), Literal),
          Assignment(Local(2), Local(1))}

\* left-hand sides of an assignment: a plain variable, a field, an array element
Targets ==
  {Local(v) : v \in Locals}
    \cup {FieldAccess(Local(1)), FieldAccess(MethodInvocation(<<>>)),
          Expr("ArrayAccess", None, "", "IntTT", <<Local(1), Local(2)>>)}

Exprs ==
  Operands
    \cup {BinaryInfix(o, d, a, b) : o \in InfixOps, d \in DTypes, a \in Operands, b \in Operands}
    \cup {Assignment(a, b) : a \in Targets, b \in Operands}

\* what the list passed to visitExpr may hold already
InitialLines == {<<>>, <<CanThrowLine>>, <<Use(1), Def(2, 1)>>}

(* ------------------------------- state -------------------------------- *)
VARIABLES
  mode,        \* which family of inputs the run draws from: "cfg", "mut" or "expr"
  pc,          \* "visit": inside visitScope; "sort": visitScope(root) returned;
               \* "done": makeCFG returned; "call", "returned": before and after
               \* a call of visitExpr; otherwise the exception that escaped
  heap,        \* every DUBlock object created, by identity (its index)
  blocks,      \* DUGraph.blocks: a list of DUBlock identities
  entry,       \* DUGraph.entry
  break_dict,  \* makeCFG's break_dict: key -> list of pending predecessors
  clists,      \* the list objects that catch stacks hold, by identity
  cstacks,     \* the catch-stack list objects, by identity: lists of clists ids
  stack,       \* the activations of visitScope, innermost last
  scopes,      \* input: the scopes read so far
  stmts,       \* input: the compound statements read so far
  nkeys,       \* input: number of keys handed out to the tree's nodes
  where,       \* for each DUBlock, the scope whose activation created it
  warned,      \* the count printed by makeCFG's warning, None when not printed
  budget,      \* remaining size of the input and of the run
  op,          \* the last operation called and its arguments
  prev         \* heap as it was when that mutator was called

vars ==
  <<mode, pc, heap, blocks, entry, break_dict, clists, cstacks, stack, scopes, stmts,
    nkeys, where, warned, budget, op, prev>>

\* a key that no node of the tree has as continue key or break key (node keys
\* are handed out from 1 upwards and stay far below it)
StrayKey == 1000

Unread == 0 - 2

(* ------------------------------ DUBlock ------------------------------- *)
DUBlock(key) ==
  [key |-> key, caught_excepts |-> <<>>, lines |-> <<>>, e_successors |-> <<>>,
   n_successors |-> <<>>]

\* DUBlock.canThrow
blockCanThrow(b) == CanThrowLine \in Range(b.lines)

(* ----------------------- ddict(list) operations ----------------------- *)
\* break_dict[key], which for a defaultdict also inserts the key
Get(bd, key) == IF key \in DOMAIN bd THEN bd[key] ELSE <<>>

\* break_dict[key].append(block)
Register(bd, key, block) ==
  [k \in DOMAIN bd \cup {key} |-> IF k = key THEN Append(Get(bd, key), block) ELSE bd[k]]

\* del break_dict[key]
Delete(bd, key) == [k \in DOMAIN bd \ {key} |-> bd[k]]

(* ------------------------------ DUGraph ------------------------------- *)
\* myexcept_parents=None
NoParents == <<None>>

\* The result of makeBlock on graph (h, bl) and pending map bd.  A None among
\* the pending predecessors raises AttributeError at parent.n_successors, after
\* the predecessors before it were linked and before the key is deleted.
makeBlock(h, bl, bd, key, caught_except, myexcept_parents) ==
  LET block == Len(h) + 1
      parents == Get(bd, key)
      k == IndexOf(parents, None)
      linked == IF k = 0 THEN parents ELSE SubSeq(parents, 1, k - 1)
      h1 == Append(h, DUBlock(key))
      h2 == [b \in DOMAIN h1 |->
               [h1[b] EXCEPT !.n_successors = @ \o Rep(block, Count(linked, b))]]
      bd2 == Delete(bd, key)
      h3 == [b \in DOMAIN h2 |->
               IF b = block THEN [h2[b] EXCEPT !.caught_excepts = <<caught_except>>]
               ELSE [h2[b] EXCEPT !.e_successors =
                                     @ \o Rep(block, Count(myexcept_parents, b))]]
  IN IF k # 0
     THEN [heap |-> h2, blocks |-> Append(bl, block),
           break_dict |-> bd, block |-> block,
           err |-> "AttributeError"]
     ELSE IF (myexcept_parents = NoParents) # (caught_except = None)
     THEN [heap |-> h2, blocks |-> Append(bl, block), break_dict |-> bd2,
           block |-> block, err |-> "AssertionError"]
     ELSE IF caught_except # None
     THEN [heap |-> h3, blocks |-> Append(bl, block), break_dict |-> bd2,
           block |-> block, err |-> ""]
     ELSE [heap |-> h2, blocks |-> Append(bl, block), break_dict |-> bd2,
           block |-> block, err |-> ""]

\* finishBlock without the test of line 76
finishBlockUnconditional(h, cl, block, catch_stack) ==
  [c \in DOMAIN cl |-> IF c \in Range(catch_stack) THEN Append(cl[c], block) ELSE cl[c]]

\* The list objects after finishBlock(block, catch_stack)
finishBlock(h, cl, block, catch_stack) ==
  IF blockCanThrow(h[block])
  THEN [c \in DOMAIN cl |-> IF c \in Range(catch_stack) THEN Append(cl[c], block) ELSE cl[c]]
  ELSE cl

(* --------------------------- the input tree --------------------------- *)
\* A scope of the tree: the statement it belongs to (None for the root), its
\* role there, its continueKey and, once read, its jumpKey.
Scope(stmt, role, clause, continueKey) ==
  [stmt |-> stmt, role |-> role, clause |-> clause, continueKey |-> continueKey,
   jumpKey |-> Unread]

\* A compound statement: its class, the scope holding it, the block that was
\* current when it was reached, its breakKey, its scopes' continueKeys,
\* hasDefault() of a switch, the cdecl.local of each catch clause, and for a
\* loop the predecessors found pending on its continueKey when its body ended.
Stmt(kind, scope, at, breakKey, keys, hasDefault, excepts) ==
  [kind |-> kind, scope |-> scope, at |-> at, breakKey |-> breakKey, keys |-> keys,
   hasDefault |-> hasDefault, excepts |-> excepts, back |-> <<>>]

\* the continueKey of every loop body and the breakKey of every compound
\* statement that enclose scope sc
RECURSIVE JumpTargets(_)
JumpTargets(sc) ==
  IF scopes[sc].stmt = None THEN {}
  ELSE LET st == stmts[scopes[sc].stmt]
       IN (IF st.breakKey # None THEN {st.breakKey} ELSE {})
            \cup (IF st.kind = "WhileStatement" THEN {scopes[sc].continueKey} ELSE {})
            \cup JumpTargets(st.scope)

\* the try statements whose try-body encloses scope sc
RECURSIVE TryBodies(_)
TryBodies(sc) ==
  IF scopes[sc].stmt = None THEN {}
  ELSE (IF scopes[sc].role = "try" THEN {scopes[sc].stmt} ELSE {})
         \cup TryBodies(stmts[scopes[sc].stmt].scope)

\* simple statements the input may hold: <<class, expr>>
SimpleStmts ==
  IF mode = "cfg"
  THEN {<<"ExpressionStatement", MethodInvocation(<<>>)>>,
        <<"ThrowStatement", Local(1)>>,
        <<"ReturnStatement", NoExpr>>}
  ELSE {<<"ExpressionStatement", Local(1)>>,
        <<"ExpressionStatement", Assignment(Local(1), Local(1))>>,
        <<"ExpressionStatement", Assignment(Local(1), Local(2))>>,
        <<"ExpressionStatement", Assignment(Local(2), Literal)>>,
        <<"ExpressionStatement", MethodInvocation(<<Local(2)>>)>>,
        <<"ThrowStatement", Local(2)>>}

\* scrutinee expressions of if and switch statements
Scrutinees == {Local(1)}

(* ---------------------- activations of visitScope --------------------- *)
Frame(scope, head_block, isloophead, catch_stack) ==
  [scope |-> scope, isloophead |-> isloophead, head_block |-> head_block,
   block |-> head_block, catch_stack |-> catch_stack,
   stmt |-> None,        \* the compound statement being processed
   visited |-> 0,        \* how many of its scopes have been visited
   new_stack |-> None]   \* the list made at line 115 for that statement

top == Last(stack)

\* the statement loop is between statements
AtStatement == pc = "visit" /\ stack # <<>> /\ top.stmt = None

SetTop(f) == [stack EXCEPT ![Len(stack)] = f]

\* lines 80-82: a call of visitScope from the activation stack caller
visitScope(sc, isloophead, bd, catch_stack, caught_except, myexcept_parents, caller) ==
  LET m == makeBlock(heap, blocks, bd, sc.continueKey, caught_except, myexcept_parents)
      id == Len(scopes) + 1
  IN /\ heap' = m.heap
     /\ blocks' = m.blocks
     /\ break_dict' = m.break_dict
     /\ scopes' = Append(scopes, sc)
     /\ where' = Append(where, id)
     /\ IF m.err = ""
        THEN /\ pc' = "visit"
             /\ stack' = Append(caller, Frame(id, m.block, isloophead, catch_stack))
        ELSE /\ pc' = m.err
             /\ stack' = caller

(* ------------------------------- makeCFG ------------------------------ *)
NoOp == [name |-> "", old |-> None, new |-> None]

Budget(m) ==
  IF m = "cfg" THEN [compound |-> MaxCompound, simple |-> MaxSimple, replace |-> 0]
  ELSE [compound |-> MaxMutCompound, simple |-> MaxMutSimple, replace |-> MaxReplace]

\* DUGraph.__init__, before makeCFG is called
InitGraph(m) ==
  /\ mode = m
  /\ pc = "new"
  /\ heap = <<>>
  /\ blocks = <<>>
  /\ entry = None
  /\ break_dict = <<>>
  /\ clists = <<>>
  /\ cstacks = <<>>
  /\ stack = <<>>
  /\ scopes = <<>>
  /\ stmts = <<>>
  /\ nkeys = 0
  /\ where = <<>>
  /\ warned = None
  /\ budget = Budget(m)
  /\ op = NoOp
  /\ prev = <<>>

Init == InitGraph("cfg")

MutInit == InitGraph("mut")

\* a block with some lines and a call visitExpr(expr, block.lines) about to be made
ExprInit ==
  /\ mode = "expr"
  /\ pc = "call"
  /\ heap \in {<<[DUBlock(None) EXCEPT !.lines = l]>> : l \in InitialLines}
  /\ blocks = <<1>>
  /\ entry = None
  /\ break_dict = <<>>
  /\ clists = <<>>
  /\ cstacks = <<>>
  /\ stack = <<>>
  /\ scopes = <<>>
  /\ stmts = <<>>
  /\ nkeys = 0
  /\ where = <<>>
  /\ warned = None
  /\ budget = [compound |-> 0, simple |-> 0, replace |-> 0]
  /\ op \in {[name |-> "visitExpr", old |-> e, new |-> None] : e \in Exprs}
  /\ prev = <<>>

\* lines 31-52: visitExpr(expr, lines) runs to its end
VisitExpr ==
  /\ pc = "call"
  /\ op.name = "visitExpr"
  /\ heap' = [heap EXCEPT ![1].lines = visitExpr(op.old, @)]
  /\ prev' = heap
  /\ pc' = "returned"
  /\ UNCHANGED <<mode, blocks, entry, break_dict, clists, cstacks, stack, scopes, stmts, nkeys,
                 where, warned, budget, op>>

\* lines 148-149: makeCFG creates break_dict and calls visitScope on the root
Start ==
  /\ pc = "new"
  /\ cstacks' = <<<<>>>>
  /\ visitScope(Scope(None, "root", 0, 1), FALSE, <<>>, 1, None, NoParents, <<>>)
  /\ nkeys' = 1
  /\ UNCHANGED <<mode, entry, clists, stmts, warned, budget, op, prev>>

\* lines 85-89: an expression, throw or return statement
Simple ==
  /\ AtStatement
  /\ budget.simple > 0
  /\ \E s \in SimpleStmts :
       IF top.block = None
       THEN /\ pc' = "AttributeError"
            /\ heap' = heap
       ELSE /\ pc' = pc
            /\ heap' = [heap EXCEPT ![top.block].lines =
                          LET l == visitExpr(s[2], @)
                          IN IF s[1] = "ThrowStatement" THEN Append(l, CanThrowLine) ELSE l]
  /\ budget' = [budget EXCEPT !.simple = @ - 1]
  /\ UNCHANGED <<mode, blocks, entry, break_dict, clists, cstacks, stack, scopes, stmts, nkeys,
                 where, warned, op, prev>>

\* lines 97-100: whether the statement has a path that enters none of its scopes
ft(st) ==
  IF st.kind = "SwitchStatement" THEN ~st.hasDefault ELSE Len(st.keys) = 1

\* lines 95-102: the keys the statement can jump to (computed, and never read)
jumps(st) == IF ft(st) THEN Append(st.keys, st.breakKey) ELSE st.keys

\* the keys of a new statement with n scopes: its scopes' continueKeys and its breakKey
NewKeys(n) == [i \in 1..n |-> nkeys + i]

NewBreakKey(n, hasBreak) == IF hasBreak THEN nkeys + n + 1 ELSE None

\* lines 93-102: an if or switch statement is reached
BeginBranch ==
  /\ AtStatement
  /\ budget.compound > 0
  /\ \E kind \in {"IfStatement", "SwitchStatement"}, n \in (1..2) \cup (1..MaxCases),
        hasDefault \in BOOLEAN,
        hasBreak \in BOOLEAN, expr \in Scrutinees :
       /\ kind = "IfStatement" => n \in {1, 2} /\ ~hasDefault
       /\ kind = "SwitchStatement" => n <= MaxCases
       /\ IF top.block = None
          THEN /\ pc' = "AttributeError"
               /\ UNCHANGED <<heap, stack, stmts, nkeys>>
          ELSE /\ pc' = pc
               /\ heap' = [heap EXCEPT ![top.block].lines = visitExpr(expr, @)]
               /\ stmts' = Append(stmts, Stmt(kind, top.scope, top.block,
                                             NewBreakKey(n, hasBreak), NewKeys(n),
                                             hasDefault, <<>>))
               /\ nkeys' = nkeys + n + 1
               /\ stack' = SetTop([top EXCEPT !.stmt = Len(stmts) + 1])
  /\ budget' = [budget EXCEPT !.compound = @ - 1]
  /\ UNCHANGED <<mode, blocks, entry, break_dict, clists, cstacks, scopes, where, warned, op, prev>>

\* lines 104-106: the next scope of the if or switch statement is visited
VisitArm ==
  /\ pc = "visit"
  /\ stack # <<>>
  /\ top.stmt # None
  /\ stmts[top.stmt].kind \in {"IfStatement", "SwitchStatement"}
  /\ top.visited < Len(stmts[top.stmt].keys)
  /\ LET i == top.visited + 1
         key == stmts[top.stmt].keys[i]
     IN visitScope(Scope(top.stmt, "arm", i, key), FALSE,
                   Register(break_dict, key, top.block), top.catch_stack, None, NoParents,
                   SetTop([top EXCEPT !.visited = i]))
  /\ UNCHANGED <<mode, entry, clists, cstacks, stmts, nkeys, warned, budget, op, prev>>

\* lines 108-112: a while(true) statement is reached and its body visited
BeginWhile ==
  /\ AtStatement
  /\ budget.compound > 0
  /\ \E hasBreak \in BOOLEAN :
       LET key == nkeys + 1
           id == Len(stmts) + 1
       IN /\ stmts' = Append(stmts, Stmt("WhileStatement", top.scope, top.block,
                                        NewBreakKey(1, hasBreak), <<key>>, FALSE, <<>>))
          /\ visitScope(Scope(id, "body", 1, key), TRUE,
                        Register(break_dict, key, top.block), top.catch_stack, None,
                        NoParents, SetTop([top EXCEPT !.stmt = id, !.visited = 1]))
  /\ nkeys' = nkeys + 2
  /\ budget' = [budget EXCEPT !.compound = @ - 1]
  /\ UNCHANGED <<mode, entry, clists, cstacks, warned, op, prev>>

\* the cdecl.local of the catch clauses of a try statement with n clauses: each
\* clause declares its own Local
CatchLocals(n) == [i \in 1..n |-> ((i - 1) % NVars) + 1]

\* line 115 as an in-place extension of the stack that was passed in
extendInPlace(cs, cl, catch_stack, n) ==
  [cstacks |-> [cs EXCEPT ![catch_stack] = @ \o [i \in 1..n |-> Len(cl) + i]],
   clists |-> cl \o Rep(<<>>, n),
   new_stack |-> catch_stack]

\* line 115: new_stack = catch_stack + [[] for _ in stmt.pairs], a new list that
\* holds the lists of catch_stack and n new empty lists
extend(cs, cl, catch_stack, n) ==
  [cstacks |-> Append(cs, cs[catch_stack] \o [i \in 1..n |-> Len(cl) + i]),
   clists |-> cl \o Rep(<<>>, n),
   new_stack |-> Len(cs) + 1]

\* lines 114-118: a try statement is reached and its try-body visited
BeginTry ==
  /\ AtStatement
  /\ budget.compound > 0
  /\ \E n \in 1..MaxCatch, hasBreak \in BOOLEAN :
     \E excepts \in {CatchLocals(n)} :
       LET key == nkeys + 1
           id == Len(stmts) + 1
           x == extend(cstacks, clists, top.catch_stack, n)
       IN /\ stmts' = Append(stmts, Stmt("TryStatement", top.scope, top.block,
                                        NewBreakKey(n + 1, hasBreak), NewKeys(n + 1),
                                        FALSE, excepts))
          /\ clists' = x.clists
          /\ cstacks' = x.cstacks
          /\ visitScope(Scope(id, "try", 0, key), FALSE,
                        Register(break_dict, key, top.block), x.new_stack, None, NoParents,
                        SetTop([top EXCEPT !.stmt = id, !.visited = 1,
                                           !.new_stack = x.new_stack]))
          /\ nkeys' = nkeys + n + 2
  /\ budget' = [budget EXCEPT !.compound = @ - 1]
  /\ UNCHANGED <<mode, entry, warned, op, prev>>

\* lines 120-122: the next catch clause's accumulator is popped and its body visited
VisitCatch ==
  /\ pc = "visit"
  /\ stack # <<>>
  /\ top.stmt # None
  /\ stmts[top.stmt].kind = "TryStatement"
  /\ top.visited < Len(stmts[top.stmt].keys)
  /\ LET i == top.visited
         st == stmts[top.stmt]
         parents == clists[Last(cstacks[top.new_stack])]
     IN visitScope(Scope(top.stmt, "catch", i, st.keys[i + 1]), FALSE, break_dict,
                   top.catch_stack, st.excepts[i], parents,
                   SetTop([top EXCEPT !.visited = i + 1]))
  /\ cstacks' = [cstacks EXCEPT ![top.new_stack] = Front(@)]
  /\ UNCHANGED <<mode, entry, clists, stmts, nkeys, warned, budget, op, prev>>

\* lines 125-127: a nested statement block is reached and visited
BeginBlock ==
  /\ AtStatement
  /\ budget.compound > 0
  /\ \E hasBreak \in BOOLEAN :
       LET key == nkeys + 1
           id == Len(stmts) + 1
       IN /\ stmts' = Append(stmts, Stmt("StatementBlock", top.scope, top.block,
                                        NewBreakKey(1, hasBreak), <<key>>, FALSE, <<>>))
          /\ visitScope(Scope(id, "block", 1, key), FALSE,
                        Register(break_dict, key, top.block), top.catch_stack, None,
                        NoParents, SetTop([top EXCEPT !.stmt = id, !.visited = 1]))
  /\ nkeys' = nkeys + 2
  /\ budget' = [budget EXCEPT !.compound = @ - 1]
  /\ UNCHANGED <<mode, entry, clists, cstacks, warned, op, prev>>

\* the lists a catch stack holds, as Python's == on lists of lists compares them
Lists(catch_stack) == [i \in 1..Len(catch_stack) |-> clists[catch_stack[i]]]

\* lines 123 and 129-134: every scope of the statement has been visited
EndStmt ==
  /\ pc = "visit"
  /\ stack # <<>>
  /\ top.stmt # None
  /\ top.visited = Len(stmts[top.stmt].keys)
  /\ LET st == stmts[top.stmt]
         cl == finishBlock(heap, clists, top.block, cstacks[top.catch_stack])
         m == makeBlock(heap, blocks, break_dict, st.breakKey, None, NoParents)
     IN IF st.kind = "TryStatement" /\ Lists(cstacks[top.new_stack]) # Lists(cstacks[top.catch_stack])
        THEN /\ pc' = "AssertionError"
             /\ UNCHANGED <<heap, blocks, break_dict, clists, stack, where>>
        ELSE IF st.breakKey = None
        THEN /\ stack' = SetTop([top EXCEPT !.stmt = None, !.visited = 0, !.block = None,
                                            !.new_stack = None])
             /\ UNCHANGED <<pc, heap, blocks, break_dict, clists, where>>
        ELSE /\ clists' = cl
             /\ heap' = m.heap
             /\ blocks' = m.blocks
             /\ break_dict' = m.break_dict
             /\ where' = Append(where, top.scope)
             /\ pc' = IF m.err = "" THEN pc ELSE m.err
             /\ stack' = SetTop([top EXCEPT !.stmt = None, !.visited = 0,
                                            !.block = m.block, !.new_stack = None])
  /\ UNCHANGED <<mode, cstacks, entry, scopes, stmts, nkeys, warned, budget, op, prev>>

\* the jumpKey a scope of the input may have: none, the continueKey of a loop or
\* the breakKey of a statement around it, and for the root a key of no node
JumpKeys(sc) ==
  {None} \cup JumpTargets(sc) \cup (IF scopes[sc].stmt = None THEN {StrayKey} ELSE {})

\* lines 141-142 without the del
backEdgesKeepKey(h, bd, head_block, key) ==
  [heap |-> [h EXCEPT ![head_block].n_successors = @ \o Get(bd, key)],
   break_dict |-> bd]

\* lines 141-142 with the edge drawn from each pending block to the head block
backEdgesFromPending(h, bd, head_block, key) ==
  [heap |-> [b \in DOMAIN h |->
               [h[b] EXCEPT !.n_successors = @ \o Rep(head_block, Count(Get(bd, key), b))]],
   break_dict |-> Delete(bd, key)]

\* lines 141-142: the blocks pending on the loop's continueKey are added to the
\* head block's n_successors and the key is deleted
backEdges(h, bd, head_block, key) ==
  [heap |-> [h EXCEPT ![head_block].n_successors = @ \o Get(bd, key)],
   break_dict |-> Delete(bd, key)]

\* lines 136-145: the scope has no more statements; visitScope returns
ExitScope ==
  /\ AtStatement
  /\ \E jumpKey \in JumpKeys(top.scope) :
       LET key == scopes[top.scope].continueKey
           bd1 == IF jumpKey # None THEN Register(break_dict, jumpKey, top.block)
                  ELSE break_dict
           pending == Get(bd1, key)
       IN /\ scopes' = [scopes EXCEPT ![top.scope].jumpKey = jumpKey]
          /\ IF top.isloophead
             THEN /\ heap' = backEdges(heap, bd1, top.head_block, key).heap
                  /\ break_dict' = backEdges(heap, bd1, top.head_block, key).break_dict
                  /\ stmts' = [stmts EXCEPT ![scopes[top.scope].stmt].back = pending]
             ELSE /\ heap' = heap
                  /\ break_dict' = bd1
                  /\ stmts' = stmts
          /\ clists' = IF top.block # None
                       THEN finishBlock(heap, clists, top.block, cstacks[top.catch_stack])
                       ELSE clists
          /\ stack' = Front(stack)
          /\ pc' = IF Len(stack) = 1 THEN "sort" ELSE "visit"
  /\ UNCHANGED <<mode, cstacks, blocks, entry, nkeys, where, warned, budget, op, prev>>

\* the lambda of line 152 without the exceptional successors
successorsNormalOnly(h, b) == h[b].n_successors

\* line 152: lambda block: block.n_successors + block.e_successors
successors(h, b) == h[b].n_successors \o h[b].e_successors

\* everything reached from the set S along successors
RECURSIVE Reach(_, _)
Reach(h, S) ==
  LET T == S \cup UNION {Range(successors(h, b)) : b \in S \ {None}}
  IN IF T = S THEN S ELSE Reach(h, T)

\* the first n elements of the set S of numbers, ascending
RECURSIVE Ascending(_)
Ascending(S) ==
  IF S = {} THEN <<>>
  ELSE LET x == CHOOSE y \in S : \A z \in S : y <= z
       IN <<x>> \o Ascending(S \ {x})

\* graph_util.topologicalSort(roots, targetFunc): the nodes reached from roots,
\* each once
topologicalSort(h, roots) == Ascending(Reach(h, Range(roots)))

\* lines 150-155: the entry is set, the unreachable blocks are dropped and counted
Finish ==
  /\ pc = "sort"
  /\ LET e == blocks[1]
         reachedSet == Reach(heap, {e})
         reached == topologicalSort(heap, <<e>>)
     IN /\ entry' = e
        /\ IF None \in reachedSet
           THEN /\ pc' = "AttributeError"
                /\ UNCHANGED <<blocks, warned>>
           ELSE /\ pc' = "done"
                /\ warned' = IF Len(reached) # Len(blocks) THEN Len(blocks) - Len(reached)
                             ELSE None
                /\ blocks' = reached
  /\ UNCHANGED <<mode, heap, break_dict, clists, cstacks, stack, scopes, stmts, nkeys, where,
                 budget, op, prev>>

(* --------------------------- graph mutators --------------------------- *)
\* the rewriting loop without line 167: the source of a def is left as it is
replaceLinesTargetOnly(lines, old, new) ==
  [i \in 1..Len(lines) |->
     IF lines[i].t = "use" /\ lines[i].v = old THEN Use(new)
     ELSE IF lines[i].t = "def"
     THEN Def(IF lines[i].v = old THEN new ELSE lines[i].v, lines[i].v2)
     ELSE lines[i]]

\* lines 162-168: the lines of one block after the rewriting loop
replaceLines(lines, old, new) ==
  [i \in 1..Len(lines) |->
     IF lines[i].t = "use" /\ lines[i].v = old THEN Use(new)
     ELSE IF lines[i].t = "def"
     THEN Def(IF lines[i].v = old THEN new ELSE lines[i].v,
              IF lines[i].v2 = old THEN new ELSE lines[i].v2)
     ELSE lines[i]]

\* index in bl of the first block that has old among its caught_excepts, 0 if none
FirstCatching(h, bl, old) ==
  IF \E i \in 1..Len(bl) : old \in Range(h[bl[i]].caught_excepts)
  THEN CHOOSE i \in 1..Len(bl) :
         /\ old \in Range(h[bl[i]].caught_excepts)
         /\ \A j \in 1..(i - 1) : old \notin Range(h[bl[j]].caught_excepts)
  ELSE 0

\* lines 157-168: the heap after replace(old, new) and the exception it raised;
\* the assertion of line 160 is evaluated block by block, inside the loop
replace(h, bl, old, new) ==
  LET k == FirstCatching(h, bl, old)
      n == IF k = 0 THEN Len(bl) ELSE k - 1
      rewritten == {bl[i] : i \in 1..n}
  IN IF old = new THEN [heap |-> h, err |-> "AssertionError"]
     ELSE [heap |-> [b \in DOMAIN h |->
                       IF b \in rewritten
                       THEN [h[b] EXCEPT !.lines = replaceLines(@, old, new)]
                       ELSE h[b]],
           err |-> IF k = 0 THEN "" ELSE "AssertionError"]

Replace ==
  /\ pc = "done"
  /\ budget.replace > 0
  /\ \E old \in Locals, new \in Locals :
       LET r == replace(heap, blocks, old, new)
       IN /\ heap' = r.heap
          /\ pc' = IF r.err = "" THEN pc ELSE r.err
          /\ op' = [name |-> "replace", old |-> old, new |-> new]
  /\ prev' = heap
  /\ budget' = [budget EXCEPT !.replace = @ - 1]
  /\ UNCHANGED <<mode, blocks, entry, break_dict, clists, cstacks, stack, scopes, stmts, nkeys,
                 where, warned>>

\* last = None
NoLine == [t |-> "", v |-> None, v2 |-> None]

\* lines 175-182: the loop over block.lines from the i-th line on
RECURSIVE simplifyLoop(_, _, _, _)
simplifyLoop(lines, i, last, newlines) ==
  IF i > Len(lines) THEN newlines
  ELSE LET line == lines[i]
       IN IF line.t = "def" /\ line.v = line.v2
          THEN simplifyLoop(lines, i + 1, last, newlines)
          ELSE IF line.t # "def" /\ line = last
          THEN simplifyLoop(lines, i + 1, last, newlines)
          ELSE simplifyLoop(lines, i + 1, line, Append(newlines, line))

\* the loop with last = line also executed for a dropped self-definition
RECURSIVE simplifyLoopLastOnDrop(_, _, _, _)
simplifyLoopLastOnDrop(lines, i, last, newlines) ==
  IF i > Len(lines) THEN newlines
  ELSE LET line == lines[i]
       IN IF line.t = "def" /\ line.v = line.v2
          THEN simplifyLoopLastOnDrop(lines, i + 1, line, newlines)
          ELSE IF line.t # "def" /\ line = last
          THEN simplifyLoopLastOnDrop(lines, i + 1, last, newlines)
          ELSE simplifyLoopLastOnDrop(lines, i + 1, line, Append(newlines, line))

simplifyLinesLastOnDrop(lines) == simplifyLoopLastOnDrop(lines, 1, NoLine, <<>>)

\* the loop without line 182: last is never set
RECURSIVE simplifyLoopNoLast(_, _, _, _)
simplifyLoopNoLast(lines, i, last, newlines) ==
  IF i > Len(lines) THEN newlines
  ELSE LET line == lines[i]
       IN IF line.t = "def" /\ line.v = line.v2
          THEN simplifyLoopNoLast(lines, i + 1, last, newlines)
          ELSE IF line.t # "def" /\ line = last
          THEN simplifyLoopNoLast(lines, i + 1, last, newlines)
          ELSE simplifyLoopNoLast(lines, i + 1, last, Append(newlines, line))

simplifyLinesNoLast(lines) == simplifyLoopNoLast(lines, 1, NoLine, <<>>)

\* lines 173-183: the lines of one block after simplify
simplifyLines(lines) == simplifyLoop(lines, 1, NoLine, <<>>)

\* lines 170-183
simplify(h, bl) ==
  [b \in DOMAIN h |->
     IF b \in Range(bl) THEN [h[b] EXCEPT !.lines = simplifyLines(@)] ELSE h[b]]

Simplify ==
  /\ pc = "done"
  /\ heap' = simplify(heap, blocks)
  /\ op' = [name |-> "simplify", old |-> None, new |-> None]
  /\ prev' = heap
  /\ UNCHANGED <<mode, pc, blocks, entry, break_dict, clists, cstacks, stack, scopes, stmts,
                 nkeys, where, warned, budget>>

(* --------------------------- specifications --------------------------- *)
\* makeCFG on every input tree within the bounds
Next ==
  \/ Start
  \/ Simple
  \/ BeginBranch
  \/ VisitArm
  \/ BeginWhile
  \/ BeginTry
  \/ VisitCatch
  \/ BeginBlock
  \/ EndStmt
  \/ ExitScope
  \/ Finish

Spec == Init /\ [][Next]_vars

\* makeCFG on trees of simple statements and try statements, then the mutators
MutNext ==
  \/ Start
  \/ Simple
  \/ BeginTry
  \/ VisitCatch
  \/ EndStmt
  \/ ExitScope
  \/ Finish
  \/ Replace
  \/ Simplify

MutSpec == MutInit /\ [][MutNext]_vars

\* visitExpr on every expression and list within the bounds
ExprNext == VisitExpr

ExprSpec == ExprInit /\ [][ExprNext]_vars

(* ------------------- vocabulary of the properties --------------------- *)
\* visitScope(root) has returned
Traversed == pc \in {"sort", "done"}

\* block h is the entry block of scope sc
IsEntryOf(h, sc) == where[h] = sc /\ heap[h].key = scopes[sc].continueKey

\* block h is the entry block of the i-th catch clause of try statement t
IsHandler(h, t, i) ==
  /\ scopes[where[h]].stmt = t
  /\ scopes[where[h]].role = "catch"
  /\ scopes[where[h]].clause = i
  /\ IsEntryOf(h, where[h])

TryStmts == {t \in DOMAIN stmts : stmts[t].kind = "TryStatement"}

\* the blocks created inside the try-body of t, at any depth
TryBodyBlocks(t) == {b \in DOMAIN heap : t \in TryBodies(where[b])}

Throwers(t) == {b \in TryBodyBlocks(t) : blockCanThrow(heap[b])}

(* -------------------------------- C1 ---------------------------------- *)
\* C1: after the traversal, every block that contains CanThrow and was created
\* inside the try-body of a try statement (at any depth) has an exceptional
\* successor edge to the entry block of every catch clause of that statement
\* and of every try statement whose try-body encloses it.
C1_ThrowersReachEveryHandler ==
  Traversed =>
    \A b \in DOMAIN heap :
      blockCanThrow(heap[b]) =>
        \A t \in TryBodies(where[b]) :
          \A i \in 1..Len(stmts[t].excepts) :
            \E h \in DOMAIN heap :
              IsHandler(h, t, i) /\ h \in Range(heap[b].e_successors)

(* -------------------------------- C2 ---------------------------------- *)
\* C2: H is an exceptional successor of B only if B contains CanThrow, H has a
\* caught-exception descriptor, and H is the entry block of a catch clause of
\* a try statement whose try-body contains the point where B was created.
C2_EdgesOnlyToEnclosingHandlers ==
  \A b \in DOMAIN heap :
    \A h \in Range(heap[b].e_successors) :
      /\ blockCanThrow(heap[b])
      /\ heap[h].caught_excepts # <<>>
      /\ \E t \in TryBodies(where[b]) :
           \E i \in 1..Len(stmts[t].excepts) : IsHandler(h, t, i)

\* makeCFG ended with a block that has exceptional edges to the handlers of two
\* try statements, one nested in the other's try-body
C2_Witness ==
  /\ pc = "done"
  /\ \E b \in DOMAIN heap, t \in TryStmts, u \in TryStmts :
       /\ t # u
       /\ \E h \in Range(heap[b].e_successors) : IsHandler(h, t, 1)
       /\ \E h \in Range(heap[b].e_successors) : IsHandler(h, u, 1)

(* -------------------------------- C3 ---------------------------------- *)
\* C3: for an if statement with one arm or a switch statement without default,
\* whose break key is present, the block that was current when the statement
\* was reached is, after the traversal, a normal predecessor of the block
\* created at the statement's break key.
C3_NoMatchEdge ==
  Traversed =>
    \A s \in DOMAIN stmts :
      (/\ stmts[s].kind \in {"IfStatement", "SwitchStatement"}
       /\ ft(stmts[s])
       /\ stmts[s].breakKey # None)
      => \E j \in DOMAIN heap :
           /\ heap[j].key = stmts[s].breakKey
           /\ j \in Range(heap[stmts[s].at].n_successors)

(* -------------------------------- C4 ---------------------------------- *)
\* C4: after the traversal of a while(true) loop, every block P that was
\* pending on the loop's continue key when the loop body ended has the loop's
\* head block among P's normal successors.
C4_BackEdgeFromBodyToHead ==
  Traversed =>
    \A s \in DOMAIN stmts :
      stmts[s].kind = "WhileStatement" =>
        \A P \in Range(stmts[s].back) \ {None} :
          \E H \in DOMAIN heap :
            /\ scopes[where[H]].stmt = s
            /\ IsEntryOf(H, where[H])
            /\ H \in Range(heap[P].n_successors)

(* -------------------------------- C5 ---------------------------------- *)
\* the root scope has no jump key; every other scope's jump key, if it has one,
\* is the continue key of an enclosing loop scope or the break key of an
\* enclosing compound statement
JumpsWellFormed ==
  \A sc \in DOMAIN scopes :
    IF scopes[sc].stmt = None THEN scopes[sc].jumpKey = None
    ELSE scopes[sc].jumpKey \in {None} \cup JumpTargets(sc)

\* C5: for such a tree break_dict is empty when the root visitScope call has
\* returned.
C5_BreakDictDrained == (Traversed /\ JumpsWellFormed) => DOMAIN break_dict = {}

\* a finished traversal of a well-formed tree in which one scope jumped to a
\* loop's continue key and another to a statement's break key
C5_Witness ==
  /\ Traversed
  /\ JumpsWellFormed
  /\ \E a \in DOMAIN scopes, b \in DOMAIN scopes :
       /\ scopes[a].jumpKey # None
       /\ scopes[b].jumpKey # None
       /\ \E s \in DOMAIN stmts :
            stmts[s].kind = "WhileStatement" /\ scopes[a].jumpKey = stmts[s].keys[1]
       /\ \E s \in DOMAIN stmts : scopes[b].jumpKey = stmts[s].breakKey

(* -------------------------------- C6 ---------------------------------- *)
\* c is a normal or exceptional successor of b
Edge(b, c) == c \in Range(heap[b].n_successors) \cup Range(heap[b].e_successors)

\* the blocks at the end of a path of at most n edges that starts in S
RECURSIVE Within(_, _)
Within(S, n) ==
  IF n = 0 THEN S
  ELSE Within(S \cup {c \in DOMAIN heap : \E b \in S : Edge(b, c)}, n - 1)

\* C6: after makeCFG the entry is the first block created, the block collection
\* is exactly the set of blocks at the end of a path of normal and exceptional
\* edges from it, each block once, and the count reported is the number of
\* created blocks that were removed.
C6_BlocksAreTheReachable ==
  pc = "done" =>
    LET S == Range(blocks)
        removed == Len(heap) - Cardinality(S)
    IN /\ entry = 1
       /\ Cardinality(S) = Len(blocks)
       /\ S = Within({entry}, Len(heap))
       /\ warned = IF removed > 0 THEN removed ELSE None

\* makeCFG ended after removing some block
C6_Witness == pc = "done" /\ warned # None /\ Len(blocks) > 1

(* -------------------------------- C10 --------------------------------- *)
\* C10: after the traversal each catch clause's entry block carries the
\* clause's descriptor and has exactly one incoming exceptional edge from each
\* try-body block that contains CanThrow; no block appears twice in an
\* exceptional-successor list; if no try-body block contains CanThrow the
\* entry block has no incoming exceptional edge.
C10_OneEdgePerThrower ==
  Traversed =>
    /\ \A t \in TryStmts :
         \A i \in 1..Len(stmts[t].excepts) :
           \E h \in DOMAIN heap :
             /\ IsHandler(h, t, i)
             /\ heap[h].caught_excepts = <<stmts[t].excepts[i]>>
             /\ \A b \in Throwers(t) : Count(heap[b].e_successors, h) = 1
             /\ Throwers(t) = {} =>
                  \A b \in DOMAIN heap : h \notin Range(heap[b].e_successors)
    /\ \A b \in DOMAIN heap :
         \A h \in DOMAIN heap : Count(heap[b].e_successors, h) <= 1

(* ----------------------------- C7, C8, C9 ----------------------------- *)
\* line mentions variable x
Mentions(line, x) == line.t # "canthrow" /\ (line.v = x \/ line.v2 = x)

\* replace(old, new) was just called on a graph none of whose blocks catches old
ReplacedUncaught ==
  /\ op.name = "replace"
  /\ op.old # op.new
  /\ \A b \in Range(blocks) : op.old \notin Range(prev[b].caught_excepts)

\* C7: if old is no block's caught-exception descriptor and old # new, then
\* after replace(old, new) no event of any block of the graph mentions old,
\* every event that did not mention old is as it was and in its place, and all
\* successor lists are unchanged.
C7_ReplaceRemovesOld ==
  ReplacedUncaught =>
    /\ pc = "done"
    /\ \A b \in Range(blocks) :
         /\ Len(heap[b].lines) = Len(prev[b].lines)
         /\ \A i \in 1..Len(heap[b].lines) :
              /\ ~Mentions(heap[b].lines[i], op.old)
              /\ heap[b].lines[i].t = prev[b].lines[i].t
              /\ ~Mentions(prev[b].lines[i], op.old)
                   => heap[b].lines[i] = prev[b].lines[i]
         /\ heap[b].n_successors = prev[b].n_successors
         /\ heap[b].e_successors = prev[b].e_successors

\* replace was called where old occurred as a use and as the source of a def
C7_Witness ==
  /\ ReplacedUncaught
  /\ \E b \in Range(blocks) :
       /\ Use(op.old) \in Range(prev[b].lines)
       /\ \E i \in 1..Len(prev[b].lines) :
            prev[b].lines[i].t = "def" /\ prev[b].lines[i].v2 = op.old

\* C8: simplify is idempotent: right after simplify, applying it again would
\* leave the event log of every block as it is.
C8_SimplifyIdempotent ==
  op.name = "simplify" =>
    \A b \in Range(blocks) : simplifyLines(heap[b].lines) = heap[b].lines

\* simplify was called and dropped a self-definition that stood between two
\* equal events
C8_Witness ==
  /\ op.name = "simplify"
  /\ \E b \in Range(blocks) :
       \E i \in 2..(Len(prev[b].lines) - 1) :
         /\ prev[b].lines[i].t = "def"
         /\ prev[b].lines[i].v = prev[b].lines[i].v2
         /\ prev[b].lines[i - 1] = prev[b].lines[i + 1]
         /\ Len(heap[b].lines) < Len(prev[b].lines)

\* a is b with some elements left out
RECURSIVE IsSubseq(_, _)
IsSubseq(a, b) ==
  IF a = <<>> THEN TRUE
  ELSE IF b = <<>> THEN FALSE
  ELSE IF Head(a) = Head(b) THEN IsSubseq(Tail(a), Tail(b))
  ELSE IsSubseq(a, Tail(b))

\* C9 as claimed: after simplify no Def(t, t) remains, no event of any kind
\* equals the event before it, and the events kept are in their original order.
C9_NoAdjacentDuplicates ==
  op.name = "simplify" =>
    \A b \in Range(blocks) :
      /\ \A i \in 1..Len(heap[b].lines) :
           ~(heap[b].lines[i].t = "def" /\ heap[b].lines[i].v = heap[b].lines[i].v2)
      /\ \A i \in 2..Len(heap[b].lines) : heap[b].lines[i] # heap[b].lines[i - 1]
      /\ IsSubseq(heap[b].lines, prev[b].lines)

\* C9 as amended: after simplify no Def(t, t) remains, no Use or CanThrow event
\* equals the event before it (equal consecutive Def events are kept), and the
\* events kept are in their original order.
C9_NoAdjacentDuplicateUseOrCanThrow ==
  op.name = "simplify" =>
    \A b \in Range(blocks) :
      /\ \A i \in 1..Len(heap[b].lines) :
           ~(heap[b].lines[i].t = "def" /\ heap[b].lines[i].v = heap[b].lines[i].v2)
      /\ \A i \in 2..Len(heap[b].lines) :
           heap[b].lines[i].t # "def" => heap[b].lines[i] # heap[b].lines[i - 1]
      /\ IsSubseq(heap[b].lines, prev[b].lines)

\* simplify was called on a block with two equal consecutive events that are
\* not definitions, and dropped one
C9_Witness ==
  /\ op.name = "simplify"
  /\ \E b \in Range(blocks) :
       /\ \E i \in 2..Len(prev[b].lines) :
            prev[b].lines[i].t # "def" /\ prev[b].lines[i] = prev[b].lines[i - 1]
       /\ Len(heap[b].lines) < Len(prev[b].lines)

(* -------------------------------- C11 --------------------------------- *)
\* the scopes of compound statement s that have been visited
ScopesOf(s) == {sc \in DOMAIN scopes : scopes[sc].stmt = s}

\* the blocks created by the activation of visitScope on scope sc
BlocksOf(sc) == {b \in DOMAIN heap : where[b] = sc}

\* the block that was current when scope sc ran out of statements, for a scope
\* that does not end with a compound statement without break key
FinalBlock(sc) == CHOOSE b \in BlocksOf(sc) : \A c \in BlocksOf(sc) : c <= b

\* the block of scope sc created at its continue key
EntryBlock(sc) == CHOOSE b \in BlocksOf(sc) : \A c \in BlocksOf(sc) : b <= c

\* the blocks that have j among their normal successors
NormalPreds(j) == {b \in DOMAIN heap : j \in Range(heap[b].n_successors)}

\* if statements with two arms that both jump to the statement's break key,
\* where no scope nested in the arms jumps there as well
TwoArmIfs ==
  {s \in DOMAIN stmts :
     /\ stmts[s].kind = "IfStatement"
     /\ Len(stmts[s].keys) = 2
     /\ stmts[s].breakKey # None
     /\ Cardinality(ScopesOf(s)) = 2
     /\ \A sc \in DOMAIN scopes :
          scopes[sc].jumpKey = stmts[s].breakKey <=> sc \in ScopesOf(s)}

\* C11: after the traversal, for an if statement with two arms whose scopes
\* both have the statement's break key as jump key, the block holding the
\* scrutinee events has exactly the two arm entry blocks as normal successors,
\* and the block created at the break key has exactly the two arms' final
\* blocks as normal predecessors (the scrutinee block is not one of them).
C11_IfDiamond ==
  Traversed =>
    \A s \in TwoArmIfs :
      \A j \in DOMAIN heap :
        heap[j].key = stmts[s].breakKey =>
          /\ Len(heap[stmts[s].at].n_successors) = 2
          /\ Range(heap[stmts[s].at].n_successors) = {EntryBlock(sc) : sc \in ScopesOf(s)}
          /\ NormalPreds(j) = {FinalBlock(sc) : sc \in ScopesOf(s)}
          /\ stmts[s].at \notin NormalPreds(j)

(* -------------------------------- C13 --------------------------------- *)
\* the activation on top of the stack is that of a loop body and returns in
\* this step
LoopBodyReturns ==
  /\ pc = "visit"
  /\ stack # <<>>
  /\ top.isloophead
  /\ Len(stack') < Len(stack)

\* what is pending on the continue key of the returning scope after line 137:
\* the blocks registered while the body was visited and, when the body's jump
\* key is the continue key, the body's final block
PendingOnContinue ==
  LET key == scopes[top.scope].continueKey
  IN Get(break_dict, key)
       \o (IF scopes'[top.scope].jumpKey = key THEN <<top.block>> ELSE <<>>)

\* C13: when visitScope returns from a loop-head scope, every block pending on
\* the scope's continue key (the body's final block included when the body's
\* jump key is the continue key) has been appended, once each and in
\* registration order, to the head block's normal successors, no other
\* successor list has changed, and the continue key is not in break_dict.
C13_PendingMovedToHead ==
  [][LoopBodyReturns =>
       /\ heap'[top.head_block].n_successors =
            heap[top.head_block].n_successors \o PendingOnContinue
       /\ \A b \in DOMAIN heap : b # top.head_block => heap'[b] = heap[b]
       /\ DOMAIN heap' = DOMAIN heap
       /\ \A b \in Range(PendingOnContinue) :
            b # None => Count(PendingOnContinue, b) = 1
       /\ scopes[top.scope].continueKey \notin DOMAIN break_dict']_vars

\* a loop body has returned with two blocks pending on its continue key, the
\* second being the body's final block, and the head block's normal successors
\* end with these two
C13_Witness ==
  \E s \in DOMAIN stmts :
    /\ stmts[s].kind = "WhileStatement"
    /\ Len(stmts[s].back) = 2
    /\ None \notin Range(stmts[s].back)
    /\ \E sc \in ScopesOf(s) :
         /\ scopes[sc].jumpKey = scopes[sc].continueKey
         /\ stmts[s].back[2] = FinalBlock(sc)
         /\ LET succ == heap[EntryBlock(sc)].n_successors
            IN /\ Len(succ) >= 2
               /\ SubSeq(succ, Len(succ) - 1, Len(succ)) = stmts[s].back
         /\ scopes[sc].continueKey \notin DOMAIN break_dict

(* -------------------------------- C14 --------------------------------- *)
\* a try statement's try-body and catch bodies have all been visited and the
\* assertion of line 123 is about to be evaluated
AtAssertion ==
  /\ pc = "visit"
  /\ stack # <<>>
  /\ top.stmt # None
  /\ stmts[top.stmt].kind = "TryStatement"
  /\ top.visited = Len(stmts[top.stmt].keys)

\* C14: for every try statement, once its try-body and all its catch bodies
\* have been visited, the extended stack with one accumulator popped per catch
\* clause holds the same lists as the caller's stack and the assertion of line
\* 123 never fails; and no step changes the length or the elements of the
\* catch stack that an activation of visitScope was given.
C14_CatchStackCopyOnModify ==
  /\ [](/\ pc # "AssertionError"
        /\ AtAssertion =>
             /\ top.new_stack # top.catch_stack
             /\ cstacks[top.new_stack] = cstacks[top.catch_stack])
  /\ [][\A i \in DOMAIN stack :
          cstacks'[stack[i].catch_stack] = cstacks[stack[i].catch_stack]]_vars

\* the assertion is reached for a try statement nested in the try-body of
\* another one, with two catch clauses popped, under a non-empty caller's stack
C14_Witness ==
  /\ AtAssertion
  /\ Len(stmts[top.stmt].excepts) = 2
  /\ cstacks[top.catch_stack] # <<>>
  /\ cstacks[top.new_stack] = cstacks[top.catch_stack]
  /\ Len(stack) >= 2

(* -------------------------------- C16 --------------------------------- *)
\* replace(old, new) was just called with old # new on a graph one of whose
\* blocks catches old, and failed
ReplaceFailedOnCaught ==
  /\ op.name = "replace"
  /\ op.old # op.new
  /\ pc = "AssertionError"
  /\ \E b \in Range(blocks) : op.old \in Range(prev[b].caught_excepts)

\* C16: when replace(old, new) fails because old is a caught-exception
\* descriptor of some block of the graph, the event log of every block is what
\* it was before the call.
C16_FailedReplaceRewritesNothing ==
  ReplaceFailedOnCaught => \A b \in DOMAIN heap : heap[b].lines = prev[b].lines

(* -------------------------------- C17 --------------------------------- *)
\* no statement read so far follows a compound statement without break key
\* (such a statement is reached with no current block)
NothingAfterAbruptExit == \A s \in DOMAIN stmts : stmts[s].at # None

\* every jump key read so far is a key of the tree: the continue key of an
\* enclosing loop or the break key of an enclosing compound statement
JumpsInTree ==
  \A sc \in DOMAIN scopes : scopes[sc].jumpKey \in {Unread, None} \cup JumpTargets(sc)

\* C17: for a statement tree in which no statement follows a compound
\* statement whose break key is absent, every element of every list of
\* break_dict and of every n_successors list is a block, never None, also when
\* a scope that has a jump key ends with such a compound statement.
C17_NoneNeverRegistered ==
  (NothingAfterAbruptExit /\ JumpsInTree) =>
    /\ \A key \in DOMAIN break_dict : None \notin Range(break_dict[key])
    /\ \A b \in DOMAIN heap : None \notin Range(heap[b].n_successors)

(* ----------------------------- C12, C15 ------------------------------ *)
\* visitExpr(expr, lines) has returned
Visited == pc = "returned" /\ op.name = "visitExpr"

\* the lines the call appended, given that it kept the ones that were there
Appended ==
  SubSeq(heap[1].lines, Len(prev[1].lines) + 1, Len(heap[1].lines))

KeptLines ==
  /\ Len(heap[1].lines) >= Len(prev[1].lines)
  /\ SubSeq(heap[1].lines, 1, Len(prev[1].lines)) = prev[1].lines

\* the events of expression e alone
EventsOf(e) == visitExpr(e, <<>>)

IsDivision(e) == e.type = "BinaryInfix" /\ e.opstr \in {"/", "%"}

\* C12: visitExpr on a '/' or '%' binary expression appends its operands'
\* events and then one CanThrow for the division itself if and only if the
\* expression's static type is not float or double.
C12_DivisionCanThrow ==
  (Visited /\ IsDivision(op.old)) =>
    /\ KeptLines
    /\ Appended =
         EventsOf(op.old.params[1]) \o EventsOf(op.old.params[2])
           \o (IF op.old.dtype \in {"FloatTT", "DoubleTT"} THEN <<>> ELSE <<CanThrowLine>>)

\* visitExpr returned from a floating-point division whose last operand can
\* throw: the log ends with CanThrow, and none was added for the division
C12_Witness ==
  /\ Visited
  /\ IsDivision(op.old)
  /\ op.old.dtype \in {"FloatTT", "DoubleTT"}
  /\ canThrow(op.old.params[2])
  /\ Last(heap[1].lines) = CanThrowLine

\* C15: for an assignment whose left-hand side is a plain variable x,
\* visitExpr appends the right-hand side's events and then exactly one
\* Def(x, s), s being the right-hand side's variable if that is a bare variable
\* reference and absent otherwise, and no Use(x) for the left-hand side; for any
\* other left-hand side it appends the left-hand side's events, then the
\* right-hand side's events, and no Def of its own.
C15_AssignmentEvents ==
  (Visited /\ op.old.type = "Assignment") =>
    LET lhs == op.old.params[1]
        rhs == op.old.params[2]
        s == IF rhs.type = "Local" THEN rhs.id ELSE None
    IN /\ KeptLines
       /\ IF lhs.type = "Local"
          THEN Appended = EventsOf(rhs) \o <<Def(lhs.id, s)>>
          ELSE Appended = EventsOf(lhs) \o EventsOf(rhs)

\* visitExpr returned from x = y with x and y plain variables
C15_Witness ==
  /\ Visited
  /\ op.old.type = "Assignment"
  /\ op.old.params[1].type = "Local"
  /\ op.old.params[2].type = "Local"
  /\ op.old.params[1].id # op.old.params[2].id
  /\ Appended = <<Use(op.old.params[2].id), Def(op.old.params[1].id, op.old.params[2].id)>>

====
